---------------------------- MODULE Spec2Model ----------------------------
(***************************************************************************)
(* MultiBatch (src/multiBatch.ts): a facade over Firestore.WriteBatch that *)
(* rolls write operations over into new WriteBatch instances when the      *)
(* per-batch limit is reached and commits all of them with Promise.all.    *)
(*                                                                         *)
(* The Firestore collaborator is modelled by what MultiBatch consumes:     *)
(* db.batch() hands out a new empty WriteBatch, a WriteBatch records the   *)
(* calls staged on it, and WriteBatch.commit() returns a promise that      *)
(* later settles, fulfilled or rejected.                                   *)
(***************************************************************************)
EXTENDS Integers, Sequences, FiniteSets

\* ------------------------------------------------------------------ bounds
\* Enqueue calls (delete/set/update) made on the aggregator in one behaviour.
MaxOps == 3
\* commit() calls made on the aggregator in one behaviour.
MaxCommits == 2
\* WriteBatch.commit() calls made by all commit() calls of one behaviour.
MaxSubmissions == 4

\* set() calls an aggregator constructed with DesiredExample may take in all,
\* in the specification SpecFanOut.
ExampleOps == 5

\* ------------------------------------------------------- program constants
\* const BATCH_LIMIT = 500;
BATCH_LIMIT == 500

\* The constructor's second argument: omitted (the default applies), written
\* <<>>, or a number n, written <<n>>.
Omitted == <<>>
DesiredLimits == {Omitted} \cup {<<n>> : n \in {-1, 0, 1, 2, 500, 501}}

\* The limit of the aggregator that SpecFanOut lets take ExampleOps writes.
DesiredExample == <<2>>

\* The third argument of set(): left out, or a SetOptions value.
Undefined == "undefined"
SetOptionValues == {Undefined, "{}", "{merge:true}"}

VARIABLES
    constructed,  \* TRUE once `new MultiBatch(db, limit)` has returned an object
    desired,      \* the limit argument that constructor call was given
    limit,        \* this.limit
    batches,      \* this.batches: sequence of WriteBatch identities
    operations,   \* this.operations
    writeBatches, \* db: writeBatches[h] is the sequence of writes staged on WriteBatch h
    request,      \* the latest delete/set/update call made on the aggregator
    lastCall,     \* the latest staging call a WriteBatch received
    opCount,      \* number of delete/set/update calls made so far (the k of the k-th write)
    roundBase,    \* opCount when `batches` was last reset (construction or commit success)
    calls,        \* the commit() calls made so far, in call order
    applied       \* db: the writes that fulfilled WriteBatch commits have applied

vars == <<constructed, desired, limit, batches, operations, writeBatches,
          request, lastCall, opCount, roundBase, calls, applied>>

NoRequest == [method |-> "none", options |-> Undefined]

NoCall == [batch |-> 0, method |-> "none", args |-> 0, options |-> Undefined]

Last(s) == s[Len(s)]

Range(s) == {s[i] : i \in 1..Len(s)}

\* ------------------------------------------------------------ constructor
\* `limit: number = BATCH_LIMIT`: an omitted argument takes the default.
DefaultLimit(d) == IF d = Omitted THEN BATCH_LIMIT ELSE d[1]

\* A constructor that keeps the caller's number as it is.
ClampLimit_Unclamped(l) == l

\* `limit < BATCH_LIMIT ? limit : BATCH_LIMIT`
ClampLimit(l) == IF l < BATCH_LIMIT THEN l ELSE BATCH_LIMIT

Init ==
    /\ constructed = FALSE
    /\ desired = Omitted
    /\ limit = 0
    /\ batches = <<>>
    /\ operations = 0
    /\ writeBatches = <<>>
    /\ request = NoRequest
    /\ lastCall = NoCall
    /\ opCount = 0
    /\ roundBase = 0
    /\ calls = <<>>
    /\ applied = {}

\* new MultiBatch(db, d): no argument is rejected; the first WriteBatch is
\* taken from db.batch().
Constructor(d) ==
    /\ ~constructed
    /\ constructed' = TRUE
    /\ desired' = d
    /\ limit' = ClampLimit(DefaultLimit(d))
    /\ writeBatches' = Append(writeBatches, <<>>)
    /\ batches' = <<Len(writeBatches) + 1>>
    /\ operations' = 0
    /\ UNCHANGED <<request, lastCall, opCount, roundBase, calls, applied>>

\* ---------------------------------------------------------------- getBatch
\* TRUE when getBatch() returns the last WriteBatch of `batches` as it is.
HasRoom == operations < limit

\* getBatch() that takes a new WriteBatch from db and returns it without
\* pushing it onto `batches`.
GetBatch_Unpushed ==
    IF HasRoom
    THEN [batches |-> batches, operations |-> operations,
          writeBatches |-> writeBatches, returned |-> Last(batches)]
    ELSE [batches |-> batches, operations |-> 0,
          writeBatches |-> Append(writeBatches, <<>>),
          returned |-> Len(writeBatches) + 1]

\* getBatch(): the fields and the db it leaves behind, and the WriteBatch it
\* returns.
GetBatch ==
    IF HasRoom
    THEN [batches |-> batches, operations |-> operations,
          writeBatches |-> writeBatches, returned |-> Last(batches)]
    ELSE [batches |-> Append(batches, Len(writeBatches) + 1), operations |-> 0,
          writeBatches |-> Append(writeBatches, <<>>),
          returned |-> Len(writeBatches) + 1]

\* this.getBatch().<method>(...); this.operations++
\* The write is the opCount'-th one made on the aggregator.
Enqueue(method, nargs, options) ==
    /\ LET g == GetBatch
       IN /\ batches' = g.batches
          /\ operations' = g.operations + 1
          /\ writeBatches' = [g.writeBatches EXCEPT ![g.returned] = Append(@, opCount + 1)]
          /\ lastCall' = [batch |-> g.returned, method |-> method,
                          args |-> nargs, options |-> options]
    /\ opCount' = opCount + 1
    /\ UNCHANGED <<constructed, desired, limit, roundBase, calls, applied>>

\* delete(ref)
Delete ==
    /\ constructed
    /\ opCount < MaxOps
    /\ request' = [method |-> "delete", options |-> Undefined]
    /\ Enqueue("delete", 1, Undefined)

\* set() that hands its third parameter to the WriteBatch whatever it is.
Set_AlwaysForwards(options) ==
    /\ constructed
    /\ opCount < MaxOps
    /\ request' = [method |-> "set", options |-> options]
    /\ Enqueue("set", 3, options)

\* set(ref, data, options?): `options == undefined` picks the two-argument call.
Set(options) ==
    /\ constructed
    /\ opCount < MaxOps
    /\ request' = [method |-> "set", options |-> options]
    /\ IF options = Undefined
       THEN Enqueue("set", 2, Undefined)
       ELSE Enqueue("set", 3, options)

\* set(ref, data, options?) again, for the writes beyond MaxOps that only the
\* aggregator constructed with DesiredExample takes.
SetMore(options) ==
    /\ constructed
    /\ desired = DesiredExample
    /\ MaxOps <= opCount
    /\ opCount < ExampleOps
    /\ request' = [method |-> "set", options |-> options]
    /\ IF options = Undefined
       THEN Enqueue("set", 2, Undefined)
       ELSE Enqueue("set", 3, options)

\* update(ref, data)
Update ==
    /\ constructed
    /\ opCount < MaxOps
    /\ request' = [method |-> "update", options |-> Undefined]
    /\ Enqueue("update", 2, Undefined)

\* ------------------------------------------------------------------ commit
\* Number of WriteBatch.commit() calls made by the first n commit() calls.
RECURSIVE Submitted(_)
Submitted(n) == IF n = 0 THEN 0 ELSE Submitted(n - 1) + Len(calls[n].handles)

\* commit() up to its await: every WriteBatch of `batches` has commit() called
\* on it, in order, and the promises are handed to Promise.all.
\* commit() that submits only the WriteBatch being filled.
Commit_LastOnly ==
    /\ constructed
    /\ Len(calls) < MaxCommits
    /\ Submitted(Len(calls)) + 1 <= MaxSubmissions
    /\ calls' = Append(calls, [handles |-> <<Last(batches)>>,
                               outcome |-> <<"pending">>,
                               state   |-> "pending",
                               fresh   |-> 0,
                               from    |-> opCount,
                               reason  |-> 0])
    /\ UNCHANGED <<constructed, desired, limit, batches, operations,
                   writeBatches, request, lastCall, opCount, roundBase, applied>>

Commit ==
    /\ constructed
    /\ Len(calls) < MaxCommits
    /\ Submitted(Len(calls)) + Len(batches) <= MaxSubmissions
    /\ calls' = Append(calls, [handles |-> batches,
                               outcome |-> [i \in 1..Len(batches) |-> "pending"],
                               state   |-> "pending",
                               fresh   |-> 0,
                               from    |-> opCount,
                               reason  |-> 0])
    /\ UNCHANGED <<constructed, desired, limit, batches, operations,
                   writeBatches, request, lastCall, opCount, roundBase, applied>>

\* The lines after the await that push the fresh WriteBatch onto the old array.
ResetBatches_Pushed ==
    /\ writeBatches' = Append(writeBatches, <<>>)
    /\ batches' = Append(batches, Len(writeBatches) + 1)
    /\ operations' = 0
    /\ roundBase' = opCount

\* this.batches = [this.db.batch()]; this.operations = 0;
ResetBatches ==
    /\ writeBatches' = Append(writeBatches, <<>>)
    /\ batches' = <<Len(writeBatches) + 1>>
    /\ operations' = 0
    /\ roundBase' = opCount

\* A commit() whose failure path also runs the reset (as a `finally` would).
KeepBatches_ResetOnFailure(wasAwaiting) ==
    IF wasAwaiting
    THEN /\ writeBatches' = Append(writeBatches, <<>>)
         /\ batches' = <<Len(writeBatches) + 1>>
         /\ operations' = 0
         /\ UNCHANGED roundBase
    ELSE UNCHANGED <<writeBatches, batches, operations, roundBase>>

\* The await throws (wasAwaiting) or commit() has already returned: the lines
\* after the await do not run.
KeepBatches(wasAwaiting) ==
    UNCHANGED <<writeBatches, batches, operations, roundBase>>

\* A commit() that swallows the rejection and stays as it was.
AfterRejection_Swallowed(state) == state

\* Promise.all rejects on the first rejected promise, and the awaiting
\* commit() rejects with it; a commit() that has already settled stays settled.
AfterRejection(state) == IF state = "pending" THEN "rejected" ELSE state

\* An awaiting commit() whose failure is an error of its own making, which
\* carries nothing of the rejected WriteBatch commit.
RejectionReason_Generic(state, old, i) == old

\* The error commit() fails with is the one Promise.all rejected with, that of
\* the first promise to reject: the i-th one when commit() is still awaiting.
\* (0 stands for no error.)
RejectionReason(state, old, i) == IF state = "pending" THEN i ELSE old

\* The writes that were staged on the i-th WriteBatch of call c when the call
\* submitted it.
SentBy(c, i) == {k \in Range(writeBatches[calls[c].handles[i]]) : k <= calls[c].from}

AllFulfilled(outcome) == \A i \in 1..Len(outcome) : outcome[i] = "ok"

\* The promise of the i-th WriteBatch.commit() of call c is fulfilled. When it
\* is the last one and none was rejected, Promise.all is fulfilled and
\* commit() resumes after its await: it resets batches and operations.
WriteBatchCommitFulfilled(c, i) ==
    /\ c \in 1..Len(calls)
    /\ i \in 1..Len(calls[c].handles)
    /\ calls[c].outcome[i] = "pending"
    /\ LET outcome == [calls[c].outcome EXCEPT ![i] = "ok"]
       IN IF calls[c].state = "pending" /\ AllFulfilled(outcome)
          THEN /\ calls' = [calls EXCEPT ![c].outcome = outcome,
                                         ![c].state = "resolved",
                                         ![c].fresh = Len(writeBatches) + 1]
               /\ ResetBatches
          ELSE /\ calls' = [calls EXCEPT ![c].outcome = outcome]
               /\ UNCHANGED <<writeBatches, batches, operations, roundBase>>
    /\ applied' = applied \cup SentBy(c, i)
    /\ UNCHANGED <<constructed, desired, limit, request, lastCall, opCount>>

\* The promise of the i-th WriteBatch.commit() of call c is rejected.
\* Promise.all rejects with the first rejection, so a commit() still awaiting
\* throws out of its await and the lines after it do not run.
WriteBatchCommitRejected(c, i) ==
    /\ c \in 1..Len(calls)
    /\ i \in 1..Len(calls[c].handles)
    /\ calls[c].outcome[i] = "pending"
    /\ calls' = [calls EXCEPT ![c].outcome[i] = "fail",
                              ![c].state = AfterRejection(@),
                              ![c].reason = RejectionReason(calls[c].state, @, i)]
    /\ KeepBatches(calls[c].state = "pending")
    /\ UNCHANGED <<constructed, desired, limit, request, lastCall, opCount, applied>>

Next ==
    \/ \E d \in DesiredLimits : Constructor(d)
    \/ Delete
    \/ \E o \in SetOptionValues : Set(o)
    \/ Update
    \/ Commit
    \/ \E c \in 1..MaxCommits, i \in 1..MaxSubmissions : WriteBatchCommitFulfilled(c, i)
    \/ \E c \in 1..MaxCommits, i \in 1..MaxSubmissions : WriteBatchCommitRejected(c, i)

Spec == Init /\ [][Next]_vars

\* Spec, with up to ExampleOps set() calls on the aggregator of DesiredExample.
NextFanOut ==
    \/ Next
    \/ \E o \in SetOptionValues : SetMore(o)

SpecFanOut == Init /\ [][NextFanOut]_vars

\* A WriteBatch commit of some commit() call settles.
Settle ==
    \E c \in 1..MaxCommits, i \in 1..MaxSubmissions :
        WriteBatchCommitFulfilled(c, i) \/ WriteBatchCommitRejected(c, i)

\* The limits of the aggregators of SpecLive.
LiveLimits == {Omitted, <<0>>, <<1>>}

\* Spec for the aggregators of LiveLimits, delete() being the write they take.
NextLive ==
    \/ \E d \in LiveLimits : Constructor(d)
    \/ Delete
    \/ Commit
    \/ \E c \in 1..MaxCommits, i \in 1..MaxSubmissions : WriteBatchCommitFulfilled(c, i)
    \/ \E c \in 1..MaxCommits, i \in 1..MaxSubmissions : WriteBatchCommitRejected(c, i)

\* The database driver settles every WriteBatch commit it was given: while one
\* is in flight, one settles.
SpecLive == Init /\ [][NextLive]_vars /\ WF_vars(Settle)

\* ------------------------------------------------------------ properties
Min(a, b) == IF a <= b THEN a ELSE b

\* The writes staged on the WriteBatch at index i of `batches`.
StagedAt(i) == writeBatches[batches[i]]

\* The writes made since `batches` was last reset.
RoundOps == (roundBase + 1)..opCount

\* The WriteBatches, among all that db handed out, that hold write k.
HoldersOf(k) == {h \in 1..Len(writeBatches) : k \in Range(writeBatches[h])}

\* The WriteBatches that hold write k after the step.
HoldersAfter(k) == {h \in 1..Len(writeBatches') : k \in Range(writeBatches'[h])}

\* C1: after N enqueue calls on a freshly constructed aggregator, with no
\* commit() in between, `batches` holds ceil(N / limit) WriteBatches, and one
\* when N = 0. (c = ceil(N / L) is stated as (c - 1) * L < N <= c * L.)
C1_HandleCountIsCeil ==
    (constructed /\ calls = <<>>) =>
        IF opCount = 0
        THEN Len(batches) = 1
        ELSE /\ (Len(batches) - 1) * limit < opCount
             /\ opCount <= Len(batches) * limit

\* C2: whatever limit the aggregator was constructed with, no WriteBatch ever
\* has more than `limit` writes staged on it.
C2_NoHandleOverLimit ==
    constructed =>
        \A h \in 1..Len(writeBatches) : Len(writeBatches[h]) <= limit

\* C3: the k-th write of a round is staged on the WriteBatch at index
\* floor((k-1)/limit) (counted from 0) of `batches`, and a WriteBatch receives
\* no write once a later WriteBatch exists: writes are filled left to right,
\* each WriteBatch holding only writes older than those of the next ones.
C3_ArrivalOrderPlacement ==
    constructed =>
        /\ \A i \in 1..Len(batches) : \A j \in 1..Len(StagedAt(i)) :
              LET k == StagedAt(i)[j] - roundBase
              IN k >= 1 => /\ (i - 1) * limit <= k - 1
                           /\ k - 1 < i * limit
        /\ \A g, h \in 1..Len(writeBatches) :
              g < h => \A a \in Range(writeBatches[g]), b \in Range(writeBatches[h]) : a < b

\* C4: every write made since the last reset of `batches` (construction or a
\* successful commit) is staged exactly once, on exactly one WriteBatch, and
\* that WriteBatch is an element of `batches`.
C4_EveryOpOnExactlyOneHandle ==
    constructed =>
        \A k \in RoundOps :
            /\ Cardinality(HoldersOf(k)) = 1
            /\ HoldersOf(k) \subseteq Range(batches)
            /\ \A h \in HoldersOf(k) :
                  Cardinality({j \in 1..Len(writeBatches[h]) : writeBatches[h][j] = k}) = 1

\* C4 witness: three writes of one round spread over two WriteBatches of
\* `batches`, after a commit() of them has failed.
C4_Witness ==
    /\ constructed
    /\ limit = 2
    /\ RoundOps = 1..3
    /\ Len(batches) = 2
    /\ \E c \in 1..Len(calls) : calls[c].state = "rejected" /\ Len(calls[c].handles) = 2

\* The commit() calls that have completed successfully.
Resolved == {c \in 1..Len(calls) : calls[c].state = "resolved"}

\* A step in which commit() call c completes successfully.
Resolves(c) == calls[c].state = "pending" /\ calls'[c].state = "resolved"

\* A step in which commit() call c completes with a failure.
Rejects(c) == calls[c].state = "pending" /\ calls'[c].state = "rejected"

\* C5: the step in which a commit() completes successfully leaves `batches`
\* holding exactly one WriteBatch, newly taken from db with nothing staged on
\* it, and operations = 0; every write made after a successful commit() is
\* staged on a WriteBatch created by or after that commit's reset, and a
\* commit() called after it submits no WriteBatch the successful one submitted.
C5_SuccessfulCommitResets ==
    [][ /\ \A c \in 1..Len(calls) :
              Resolves(c) =>
                  /\ Len(writeBatches') = Len(writeBatches) + 1
                  /\ batches' = <<Len(writeBatches')>>
                  /\ writeBatches'[Len(writeBatches')] = <<>>
                  /\ operations' = 0
        /\ opCount' = opCount + 1 =>
              \A c \in Resolved :
                  \A h \in HoldersAfter(opCount + 1) : h >= calls[c].fresh
        /\ Len(calls') = Len(calls) + 1 =>
              \A c \in Resolved :
                  Range(calls'[Len(calls')].handles) \cap Range(calls[c].handles) = {}
      ]_vars

\* C5 witness: a first commit() of two WriteBatches succeeded, a write was made
\* afterwards, and a second commit() has submitted the one WriteBatch holding it.
C5_Witness ==
    /\ Len(calls) = 2
    /\ calls[1].state = "resolved"
    /\ Len(calls[1].handles) = 2
    /\ calls[2].handles = <<calls[1].fresh>>
    /\ writeBatches[calls[1].fresh] # <<>>
    /\ batches = calls[2].handles

\* C6: a commit() call is reported successful only if every WriteBatch commit
\* it made succeeded; as soon as one of them has failed the call has failed.
C6_SuccessOnlyIfAllSucceed ==
    \A c \in 1..Len(calls) :
        /\ calls[c].state = "resolved" => AllFulfilled(calls[c].outcome)
        /\ (\E i \in 1..Len(calls[c].outcome) : calls[c].outcome[i] = "fail")
              => calls[c].state = "rejected"

\* C6 witness: a commit() of three WriteBatches of which two succeeded and one
\* failed.
C6_Witness ==
    \E c \in 1..Len(calls) :
        /\ Len(calls[c].handles) = 3
        /\ calls[c].outcome = <<"ok", "fail", "ok">>
        /\ calls[c].state = "rejected"

\* C7: a commit() call has completed, with success or failure, only when
\* every WriteBatch commit it made has completed.
C7_CompletesAfterAllHandles ==
    \A c \in 1..Len(calls) :
        calls[c].state # "pending" =>
            \A i \in 1..Len(calls[c].outcome) : calls[c].outcome[i] # "pending"

\* TRUE when sequence s is an initial part of sequence t.
IsPrefix(s, t) == Len(s) <= Len(t) /\ \A i \in 1..Len(s) : s[i] = t[i]

\* C8: the step in which a commit() completes with a failure changes neither
\* `batches`, nor what is staged on any WriteBatch, nor operations, and takes
\* no WriteBatch from db; unless another commit() has succeeded since the
\* call, `batches` still starts with the WriteBatches the call submitted, in
\* the same order.
C8_FailedCommitKeepsState ==
    [][ \A c \in 1..Len(calls) :
            Rejects(c) =>
                /\ batches' = batches
                /\ operations' = operations
                /\ writeBatches' = writeBatches
                /\ (\A d \in Resolved : calls[d].fresh <= calls[c].handles[1])
                      => IsPrefix(calls[c].handles, batches')
      ]_vars

\* C8 witness: a commit() of two WriteBatches holding three writes has failed
\* and `batches` still holds those two WriteBatches and their writes.
C8_Witness ==
    \E c \in 1..Len(calls) :
        /\ calls[c].state = "rejected"
        /\ Len(calls[c].handles) = 2
        /\ batches = calls[c].handles
        /\ StagedAt(1) = <<1, 2>>
        /\ StagedAt(2) = <<3>>
        /\ operations = 1

\* C9: an aggregator is never constructed from an explicitly supplied limit
\* that is 0 or negative, and no write is ever enqueued under a non-positive
\* limit.
C9_NonPositiveLimitRejected ==
    /\ constructed => (desired = Omitted \/ desired[1] > 0)
    /\ opCount > 0 => limit > 0

\* C10: the limit of a constructed aggregator is min(desired, BATCH_LIMIT)
\* when a limit was supplied and BATCH_LIMIT when it was omitted, it never
\* exceeds BATCH_LIMIT, and no later step changes it.
C10_EffectiveLimit ==
    /\ [](constructed =>
            /\ limit = (IF desired = Omitted THEN BATCH_LIMIT
                        ELSE Min(desired[1], BATCH_LIMIT))
            /\ limit <= BATCH_LIMIT)
    /\ [][constructed => limit' = limit]_vars

\* C10 witness: constructed with 501, the limit is 500 after writes and a
\* successful commit().
C10_Witness ==
    /\ constructed
    /\ desired = <<501>>
    /\ limit = 500
    /\ opCount = 2
    /\ Resolved # {}

\* The number of writes staged on WriteBatch h, 0 for one not yet created.
StagedCount(h) == IF h \in 1..Len(writeBatches) THEN Len(writeBatches[h]) ELSE 0

\* C11: a set() call hands the WriteBatch an options value exactly when the
\* caller gave one: without options the WriteBatch receives the two-argument
\* set(ref, data), with options it receives set(ref, data, options) with that
\* very value; either way one write is staged, on one WriteBatch, and
\* operations is then the number of writes staged on that WriteBatch, one more
\* than it held before.
C11_SetForwardsOptionsIffGiven ==
    [][ (opCount' = opCount + 1 /\ request'.method = "set") =>
            /\ lastCall'.method = "set"
            /\ request'.options = Undefined =>
                  (lastCall'.args = 2 /\ lastCall'.options = Undefined)
            /\ request'.options # Undefined =>
                  (lastCall'.args = 3 /\ lastCall'.options = request'.options)
            /\ HoldersAfter(opCount + 1) = {lastCall'.batch}
            /\ Len(writeBatches'[lastCall'.batch]) = StagedCount(lastCall'.batch) + 1
            /\ operations' = Len(writeBatches'[lastCall'.batch])
            /\ \A h \in 1..Len(writeBatches) :
                  h # lastCall'.batch => writeBatches'[h] = writeBatches[h]
      ]_vars

\* C11 witness: set() was called without options, after a set() with the
\* empty options object, and the WriteBatch received the two-argument call.
C11_Witness ==
    /\ request = [method |-> "set", options |-> Undefined]
    /\ lastCall.method = "set"
    /\ lastCall.args = 2
    /\ opCount = 2
    /\ operations = 2

\* C11 witness of the other case is the same with options given.
C11_WitnessGiven ==
    /\ request = [method |-> "set", options |-> "{}"]
    /\ lastCall = [batch |-> 1, method |-> "set", args |-> 3, options |-> "{}"]

\* C12: `batches` is never empty, operations is the number of writes staged
\* on the last WriteBatch of `batches`, and 0 <= operations <= limit.
C12_PendingCountInvariant ==
    constructed =>
        /\ batches # <<>>
        /\ operations = Len(StagedAt(Len(batches)))
        /\ 0 <= operations
        /\ operations <= limit

\* C13: a commit() call submits every WriteBatch of `batches`, each once and
\* in order, and all of them are in flight, none yet settled, when commit()
\* starts to wait; the call touches no earlier call's submissions.
C13_CommitSubmitsAllOnce ==
    [][ Len(calls') = Len(calls) + 1 =>
            LET d == calls'[Len(calls')]
            IN /\ d.handles = batches
               /\ \A i, j \in 1..Len(batches) : i # j => batches[i] # batches[j]
               /\ Len(d.outcome) = Len(batches)
               /\ \A i \in 1..Len(d.outcome) : d.outcome[i] = "pending"
               /\ d.state = "pending"
               /\ \A c \in 1..Len(calls) : calls'[c] = calls[c]
      ]_vars

\* C13 witness: limit 2 and 5 set() calls gave WriteBatches of 2, 2 and 1
\* writes, and one commit() has the three of them in flight.
C13_Witness ==
    /\ limit = 2
    /\ opCount = 5
    /\ request.method = "set"
    /\ Len(batches) = 3
    /\ <<StagedAt(1), StagedAt(2), StagedAt(3)>> = <<<<1, 2>>, <<3, 4>>, <<5>>>>
    /\ Len(calls) = 1
    /\ calls[1].handles = batches
    /\ calls[1].outcome = <<"pending", "pending", "pending">>

\* The submissions of call c that failed.
FailedOf(c) == {i \in 1..Len(calls[c].outcome) : calls[c].outcome[i] = "fail"}

Rejected == {c \in 1..Len(calls) : calls[c].state = "rejected"}

\* C15: a commit() called after a commit() has failed submits, for every write
\* made since the last successful commit (or construction), the one
\* WriteBatch the write is staged on: no write is dropped from `batches` by
\* the failure or by writes made after it, and none is staged twice.
C15_RetrySubmitsEveryOp ==
    [][ (Len(calls') = Len(calls) + 1 /\ Rejected # {}) =>
            \A k \in RoundOps :
                /\ Cardinality(HoldersOf(k)) = 1
                /\ HoldersOf(k) \subseteq Range(calls'[Len(calls')].handles)
      ]_vars

\* C15 witness: a commit() of one WriteBatch failed, a third write then went
\* to a second WriteBatch, and the commit() issued again has submitted both.
C15_Witness ==
    /\ Len(calls) = 2
    /\ calls[1].state = "rejected"
    /\ calls[1].handles = <<1>>
    /\ calls[1].from = 2
    /\ calls[2].from = 3
    /\ calls[2].handles = <<1, 2>>
    /\ RoundOps = 1..3

\* The WriteBatches that some commit() call has submitted.
SubmittedHandles == UNION {Range(calls[c].handles) : c \in 1..Len(calls)}

\* The writes made since commit() call c was made.
MadeSince(c) == (calls[c].from + 1)..opCount

\* TRUE when, after the step, write k is staged on a WriteBatch of `batches`.
InBatchesAfter(k) == HoldersAfter(k) \cap Range(batches') # {}

\* C16 (as claimed): when a commit() completes, every write made while it was
\* in flight has been applied by a submitted WriteBatch or is staged on a
\* WriteBatch of `batches`. (A write staged on a WriteBatch that some commit()
\* submitted, be it after the submission, is counted as applied; the
\* aggregator is one of a positive limit.)
C16_InFlightOpNeverLost ==
    [][ \A c \in 1..Len(calls) :
            (limit >= 1 /\ (Resolves(c) \/ Rejects(c))) =>
                \A k \in MadeSince(c) :
                    \/ k \in applied'
                    \/ HoldersAfter(k) \cap SubmittedHandles # {}
                    \/ InBatchesAfter(k)
      ]_vars

\* C16 (amended): a write made while a commit() is in flight stays staged on
\* exactly one WriteBatch of `batches` for as long as no commit() has
\* succeeded since the write was made, and the step in which that commit()
\* fails leaves it there.
C16_InFlightOpKeptUnlessCommitSucceeds ==
    /\ [](\A c \in 1..Len(calls) :
            calls[c].state = "pending" =>
                \A k \in MadeSince(c) \cap RoundOps :
                    /\ Cardinality(HoldersOf(k)) = 1
                    /\ HoldersOf(k) \subseteq Range(batches))
    /\ [][ \A c \in 1..Len(calls) :
              Rejects(c) =>
                  \A k \in MadeSince(c) \cap RoundOps :
                      /\ Cardinality(HoldersAfter(k)) = 1
                      /\ InBatchesAfter(k)
         ]_vars

\* C16 witness: with limit 1, a second write was made while the commit() of
\* the first WriteBatch was in flight; it is staged on a second WriteBatch,
\* created in flight, that is in `batches` and that the commit() did not submit.
C16_Witness ==
    /\ limit = 1
    /\ Len(calls) = 1
    /\ calls[1].state = "pending"
    /\ calls[1].handles = <<1>>
    /\ calls[1].from = 1
    /\ opCount = 2
    /\ batches = <<1, 2>>
    /\ writeBatches[2] = <<2>>

\* TRUE when no WriteBatch commit and no commit() has failed.
NoFailure == \A c \in 1..Len(calls) : calls[c].state # "rejected" /\ FailedOf(c) = {}

\* TRUE when calls c and d have submitted no WriteBatch in common.
Disjoint(c, d) == Range(calls[c].handles) \cap Range(calls[d].handles) = {}

\* TRUE when call c had completed successfully before call d was made: the
\* WriteBatch its reset took from db was there for d to submit.
ResolvedBefore(c, d) ==
    /\ c < d
    /\ calls[c].state = "resolved"
    /\ Last(calls[d].handles) >= calls[c].fresh

\* C17 (as claimed): when no commit has failed, no WriteBatch is submitted by
\* two commit() calls, be the second made while the first is in flight. (The
\* aggregator is one of a positive limit.)
C17_NoHandleSubmittedTwice ==
    (constructed /\ limit >= 1 /\ NoFailure) =>
        \A c, d \in 1..Len(calls) : c < d => Disjoint(c, d)

\* C17 (amended): two commit() calls of which the first had completed
\* successfully before the second was made have submitted no WriteBatch in
\* common.
C17_SequentialCommitsDisjoint ==
    \A c, d \in 1..Len(calls) : ResolvedBefore(c, d) => Disjoint(c, d)

\* C17 witness: a commit() succeeded, a write was made and a second commit()
\* submitted the new WriteBatch and succeeded too, without any failure.
C17_Witness ==
    /\ NoFailure
    /\ Len(calls) = 2
    /\ calls[1].handles = <<1>>
    /\ calls[2].handles = <<2>>
    /\ calls[1].state = "resolved"
    /\ calls[2].state = "resolved"
    /\ applied = {1, 2}

\* TRUE when commit() call c has been made and is awaiting.
Awaiting(c) == c <= Len(calls) /\ calls[c].state = "pending"

\* TRUE when commit() call c has completed: with a failure, or, every
\* WriteBatch commit having succeeded, with the reset of `batches` done.
Completed(c) ==
    /\ c <= Len(calls)
    /\ \/ calls[c].state = "rejected"
       \/ /\ calls[c].state = "resolved"
          /\ AllFulfilled(calls[c].outcome)
          /\ calls[c].fresh \in 1..Len(writeBatches)

\* C18: provided the WriteBatch commits settle, every commit() call completes,
\* with a failure or with success; when all its WriteBatch commits succeeded
\* it has run the reset, and right after the step that completes it `batches`
\* is one fresh WriteBatch and operations is 0.
C18_CommitTerminates ==
    /\ \A c \in 1..MaxCommits : Awaiting(c) ~> Completed(c)
    /\ [](\A c \in 1..Len(calls) :
            AllFulfilled(calls[c].outcome) => calls[c].state = "resolved")
    /\ [][ \A c \in 1..Len(calls) :
              Resolves(c) => (batches' = <<calls'[c].fresh>> /\ operations' = 0
                              /\ writeBatches'[calls'[c].fresh] = <<>>)
         ]_vars

\* C18 witness: a commit() of two WriteBatches has failed and both WriteBatch
\* commits have settled, and a later commit() has succeeded and reset.
C18_Witness ==
    /\ Len(calls) = 2
    /\ calls[1].outcome = <<"fail", "ok">>
    /\ calls[1].state = "rejected"
    /\ calls[2].state = "resolved"
    /\ Len(calls[2].handles) = 2
    /\ batches = <<calls[2].fresh>>
    /\ operations = 0

=============================================================================
